---- MODULE Spec2Model ----
(***************************************************************************)
(* Model of the photo album backend: the ingestion Lambda                  *)
(* (index_photos_LF1/lambda_function.py) and the search Lambda             *)
(* (search_photos_LF2/lambda_function.py).                                 *)
(*                                                                         *)
(* Python strings are sequences of one-character strings, so that          *)
(* str.replace, str.split and str.strip are computed character by          *)
(* character.  Python None / a missing dict key is an Opt record with      *)
(* some = FALSE.                                                           *)
(***************************************************************************)
EXTENDS Integers, Sequences, FiniteSets, TLC

\* ------------------------------------------------------------------------
\* Bounds of the model
\* ------------------------------------------------------------------------
\* longest utterance, in atoms of QAtoms
MaxAtoms == 3
\* longest multi-value slot list in an NLU response
MaxSlotValues == 2
\* most records in one storage event
MaxBatch == 2
\* most labels the labeling service detects in one image
MaxDetected == 2

\* ------------------------------------------------------------------------
\* Python str helpers
\* ------------------------------------------------------------------------
\* " and ", the separator of lines 96 and 210
AndSep == <<" ", "a", "n", "d", " ">>
Comma == <<",">>

IsWhitespace(c) == c = " "

\* s[i .. i+Len(pat)-1] = pat
MatchesAt(s, pat, i) ==
    /\ i + Len(pat) - 1 <= Len(s)
    /\ \A k \in 1..Len(pat) : s[i + k - 1] = pat[k]

RECURSIVE ReplaceFrom(_, _, _, _)
ReplaceFrom(s, pat, rep, i) ==
    IF i > Len(s) THEN <<>>
    ELSE IF MatchesAt(s, pat, i)
         THEN rep \o ReplaceFrom(s, pat, rep, i + Len(pat))
         ELSE <<s[i]>> \o ReplaceFrom(s, pat, rep, i + 1)

\* str.replace(pat, rep) for a non-empty pat: leftmost, non-overlapping
StrReplace(s, pat, rep) == ReplaceFrom(s, pat, rep, 1)

RECURSIVE SplitFrom(_, _, _, _)
SplitFrom(s, sep, i, cur) ==
    IF i > Len(s) THEN <<cur>>
    ELSE IF s[i] = sep
         THEN <<cur>> \o SplitFrom(s, sep, i + 1, <<>>)
         ELSE SplitFrom(s, sep, i + 1, Append(cur, s[i]))

\* str.split(sep) for a one-character sep: empty pieces are kept
StrSplit(s, sep) == SplitFrom(s, sep, 1, <<>>)

RECURSIVE LStrip(_)
LStrip(s) ==
    IF s # <<>> /\ IsWhitespace(Head(s)) THEN LStrip(Tail(s)) ELSE s

RECURSIVE RStrip(_)
RStrip(s) ==
    IF s # <<>> /\ IsWhitespace(s[Len(s)])
    THEN RStrip(SubSeq(s, 1, Len(s) - 1))
    ELSE s

\* str.strip()
StrStrip(s) == RStrip(LStrip(s))

\* [f(x) for x in xs]
RECURSIVE MapStrip(_)
MapStrip(xs) ==
    IF xs = <<>> THEN <<>> ELSE <<StrStrip(Head(xs))>> \o MapStrip(Tail(xs))

\* [x for x in xs if x]: drop the empty strings
RECURSIVE DropEmpty(_)
DropEmpty(xs) ==
    IF xs = <<>> THEN <<>>
    ELSE IF Head(xs) = <<>> THEN DropEmpty(Tail(xs))
         ELSE <<Head(xs)>> \o DropEmpty(Tail(xs))

InSeq(x, xs) == \E i \in 1..Len(xs) : xs[i] = x

RECURSIVE DedupeFrom(_, _)
DedupeFrom(xs, seen) ==
    IF xs = <<>> THEN seen
    ELSE IF InSeq(Head(xs), seen) THEN DedupeFrom(Tail(xs), seen)
         ELSE DedupeFrom(Tail(xs), Append(seen, Head(xs)))

\* list(dict.fromkeys(xs)): first occurrence of each entry, in order
DictFromKeys(xs) == DedupeFrom(xs, <<>>)

\* Python truthiness of a list or str: `not xs` is Falsy(xs)
Falsy_NeverEmpty(xs) == FALSE
Falsy(xs) == Len(xs) = 0

\* ------------------------------------------------------------------------
\* Optional values (None, or an absent key)
\* ------------------------------------------------------------------------
None == [some |-> FALSE, v |-> <<>>]
Some(x) == [some |-> TRUE, v |-> x]
\* truthiness of an optional str
Truthy(o) == o.some /\ ~Falsy(o.v)

\* ------------------------------------------------------------------------
\* Utterances
\* ------------------------------------------------------------------------
QAtoms == { <<"d">>, <<"c">>, <<" ">>, <<",">>, AndSep }

RECURSIVE AtomStrings(_)
AtomStrings(n) ==
    IF n = 0 THEN { <<>> }
    ELSE LET prev == AtomStrings(n - 1)
         IN  prev \cup { p \o a : p \in prev, a \in QAtoms }

Utterances == AtomStrings(MaxAtoms)

\* ------------------------------------------------------------------------
\* The NLU (Lex) response, as far as get_keywords_from_lex reads it.
\* Every JSON position is a record with a kind k: "absent" (no such key),
\* "null" (JSON null) or the kind of value found there.
\* ------------------------------------------------------------------------
SlotStrings ==
    { <<>>, <<" ">>, <<"d">>, <<"c", " ">>,
      <<"d">> \o AndSep \o <<"c">>, <<"d">> \o AndSep \o <<"d">> }

\* "interpretedValue": absent, null or a string
IVs ==
    { [k |-> "absent", s |-> <<>>], [k |-> "null", s |-> <<>>] }
    \cup { [k |-> "str", s |-> s] : s \in SlotStrings }

\* "value": absent, null or a dict that may hold "interpretedValue"
ValueFields ==
    { [k |-> "absent", iv |-> [k |-> "absent", s |-> <<>>]],
      [k |-> "null", iv |-> [k |-> "absent", s |-> <<>>]] }
    \cup { [k |-> "dict", iv |-> iv] : iv \in IVs }

RECURSIVE SeqsUpTo(_, _)
SeqsUpTo(set, n) ==
    IF n = 0 THEN { <<>> }
    ELSE LET prev == SeqsUpTo(set, n - 1)
         IN  prev \cup { Append(p, e) : p \in prev, e \in set }

\* "values": absent, null or a list of items, each a dict with a "value"
ValuesFields ==
    { [k |-> "absent", items |-> <<>>], [k |-> "null", items |-> <<>>] }
    \cup { [k |-> "list", items |-> items] :
             items \in SeqsUpTo(ValueFields, MaxSlotValues) }

\* slots["keywords"]: absent, null or a dict holding "values" or "value"
\* (other keys, such as "shape", are never read)
KwSlots ==
    { [k |-> "absent", values |-> [k |-> "absent", items |-> <<>>],
       value |-> [k |-> "absent", iv |-> [k |-> "absent", s |-> <<>>]]],
      [k |-> "null", values |-> [k |-> "absent", items |-> <<>>],
       value |-> [k |-> "absent", iv |-> [k |-> "absent", s |-> <<>>]]] }
    \cup { [k |-> "dict", values |-> vs,
            value |-> [k |-> "absent", iv |-> [k |-> "absent", s |-> <<>>]]] :
             vs \in ValuesFields }
    \cup { [k |-> "dict", values |-> [k |-> "absent", items |-> <<>>],
            value |-> v] : v \in ValueFields }
    \cup { [k |-> "dict", values |-> [k |-> "list", items |-> <<>>],
            value |-> [k |-> "dict", iv |-> [k |-> "str", s |-> <<"d">>]]] }

AbsentKw == CHOOSE kw \in KwSlots : kw.k = "absent"

\* "slots": absent, null or a dict; other = it holds slots besides "keywords"
SlotsFields ==
    { [k |-> "absent", other |-> FALSE, kw |-> AbsentKw],
      [k |-> "null", other |-> FALSE, kw |-> AbsentKw] }
    \cup { [k |-> "dict", other |-> o, kw |-> kw] :
             o \in BOOLEAN, kw \in KwSlots }

AbsentSlots == CHOOSE sl \in SlotsFields : sl.k = "absent"

\* "intent": absent, null or a dict that may hold "slots"
IntentFields ==
    { [k |-> "absent", slots |-> AbsentSlots],
      [k |-> "null", slots |-> AbsentSlots] }
    \cup { [k |-> "dict", slots |-> sl] : sl \in SlotsFields }

AbsentIntent == CHOOSE it \in IntentFields : it.k = "absent"

\* "sessionState": absent, null or a dict that may hold "intent"
SessionStates ==
    { [k |-> "absent", intent |-> AbsentIntent],
      [k |-> "null", intent |-> AbsentIntent] }
    \cup { [k |-> "dict", intent |-> it] : it \in IntentFields }

\* "interpretations": absent, null or a list; only entry 0 is read, and of
\* it only "intent", so an entry is given as its "intent" field
Interpretations ==
    { [k |-> "absent", entries |-> <<>>], [k |-> "null", entries |-> <<>>],
      [k |-> "list", entries |-> <<>>] }
    \cup { [k |-> "list", entries |-> <<it>>] : it \in IntentFields }

\* Python truthiness of the slots dict: non-empty
SlotsTruthy(sl) == sl.k = "dict" /\ (sl.other \/ sl.kw.k # "absent")

\* the sessionState path reads no further than a null
SessionPathRaises(resp) ==
    \/ resp.sessionState.k = "null"
    \/ resp.sessionState.k = "dict" /\ resp.sessionState.intent.k = "null"

SessionPathSlots(resp) ==
    IF resp.sessionState.k = "dict" /\ resp.sessionState.intent.k = "dict"
    THEN resp.sessionState.intent.slots
    ELSE AbsentSlots

\* The responses: "interpretations" is varied only where the code reads it,
\* which is when the sessionState path gives no (or an empty) slots dict.
LexResponses ==
    LET all == { [sessionState |-> ss,
                  interpretations |-> [k |-> "absent", entries |-> <<>>]] :
                    ss \in SessionStates }
        probing == { r \in all : ~SessionPathRaises(r)
                                  /\ ~SlotsTruthy(SessionPathSlots(r)) }
    IN  all \cup { [sessionState |-> r.sessionState, interpretations |-> ip] :
                     r \in probing, ip \in Interpretations }

\* ------------------------------------------------------------------------
\* get_keywords_from_lex, after recognize_text has returned resp.
\* The result is [raised, kws]: raised when the Python code raises.
\* ------------------------------------------------------------------------
Raised == [raised |-> TRUE, kws |-> <<>>]
Returned(kws) == [raised |-> FALSE, kws |-> kws]

\* lines 68-74: slots from interpretations[0].intent.slots
InterpretationsRaises(resp) ==
    /\ resp.interpretations.k = "list"
    /\ resp.interpretations.entries # <<>>
    /\ resp.interpretations.entries[1].k = "null"

InterpretationsSlots(resp) ==
    IF /\ resp.interpretations.k = "list"
       /\ resp.interpretations.entries # <<>>
       /\ resp.interpretations.entries[1].k = "dict"
       /\ SlotsTruthy(resp.interpretations.entries[1].slots)
    THEN resp.interpretations.entries[1].slots
    ELSE AbsentSlots

\* lines 85-91: the multi-value case; raises on an item whose "value" is null
RECURSIVE MultiValueRaises(_)
MultiValueRaises(items) ==
    items # <<>> /\ (Head(items).k = "null" \/ MultiValueRaises(Tail(items)))

RECURSIVE MultiValueKeywords(_)
MultiValueKeywords(items) ==
    IF items = <<>> THEN <<>>
    ELSE LET item == Head(items)
             v == IF item.k = "dict" /\ item.iv.k = "str"
                  THEN Some(item.iv.s) ELSE None
         IN  (IF Truthy(v) THEN <<StrStrip(v.v)>> ELSE <<>>)
             \o MultiValueKeywords(Tail(items))

\* lines 96-98 and 210-211: " and " -> ",", split on ",", strip, drop empties
SplitKeywords(raw) ==
    DropEmpty(MapStrip(StrSplit(StrReplace(raw, AndSep, Comma), ",")))

\* lines 95: kw_slot["value"]["interpretedValue"] and raw.replace
SingleValueRaises(value) == ~(value.k = "dict" /\ value.iv.k = "str")

\* line 101: [k for k in dict.fromkeys(keywords) if k]
RemoveDuplicates(kws) == DropEmpty(DictFromKeys(kws))

get_keywords_from_lex(resp) ==
    IF SessionPathRaises(resp) THEN Raised
    ELSE LET first == SessionPathSlots(resp) IN
    IF ~SlotsTruthy(first) /\ InterpretationsRaises(resp) THEN Raised
    ELSE LET slots == IF SlotsTruthy(first) THEN first
                      ELSE InterpretationsSlots(resp)
             kw_slot == slots.kw
         IN
    \* line 77: `not kw_slot` for None (absent or null) and for {}
    IF \/ kw_slot.k # "dict"
       \/ kw_slot.values.k = "absent" /\ kw_slot.value.k = "absent"
    THEN Returned(<<>>)
    ELSE IF kw_slot.values.k # "absent"
    THEN IF MultiValueRaises(kw_slot.values.items) THEN Raised
         ELSE Returned(RemoveDuplicates(
                  MultiValueKeywords(kw_slot.values.items)))
    ELSE IF SingleValueRaises(kw_slot.value) THEN Raised
         ELSE Returned(RemoveDuplicates(SplitKeywords(kw_slot.value.iv.s)))

\* one invocation of get_keywords_from_lex: recognize_text itself fails
\* (line 51) or returns one of LexResponses
LexOutcomes == { Raised } \cup { get_keywords_from_lex(r) : r \in LexResponses }

\* ------------------------------------------------------------------------
\* The search index: a set of documents [id, src], src the stored _source
\* ------------------------------------------------------------------------
Bucket == <<"b">>
LabelNames == { <<"D">>, <<"C">> }

Doc(bucket, k, lbls) ==
    [bucket |-> bucket, objectKey |-> k, labels |-> lbls]

\* lines 91: es.index(index, id=key, body=doc) writes or overwrites the
\* document whose id is key
es_index_NoId(idx, id, doc) == idx \cup { [id |-> id, src |-> doc] }
es_index(idx, id, doc) ==
    { d \in idx : d.id # id } \cup { [id |-> id, src |-> doc] }

\* The analyzer of the text field: lower-case tokens, split at blanks and
\* commas
Lower(c) == IF c = "D" THEN "d" ELSE IF c = "C" THEN "c" ELSE c

RECURSIVE LowerStr(_)
LowerStr(s) ==
    IF s = <<>> THEN <<>> ELSE <<Lower(Head(s))>> \o LowerStr(Tail(s))

RECURSIVE SeqToSet(_)
SeqToSet(xs) ==
    IF xs = <<>> THEN {} ELSE { Head(xs) } \cup SeqToSet(Tail(xs))

Analyze(s) ==
    SeqToSet(DropEmpty(StrSplit(StrReplace(LowerStr(s), <<" ">>, Comma), ",")))

LabelTokens(lbls) == UNION { Analyze(lbls[i]) : i \in 1..Len(lbls) }

\* {"match": {field: text}}: some token of text is a token of the field
MatchClause(d, clause) ==
    /\ clause.field = "labels"
    /\ Analyze(clause.text) \cap LabelTokens(d.src.labels) # {}

\* a deterministic listing of a set of documents (the hit order is the
\* index's own)
RECURSIVE ListDocs(_)
ListDocs(docs) ==
    IF docs = {} THEN <<>>
    ELSE LET d == CHOOSE x \in docs : TRUE
         IN  <<d>> \o ListDocs(docs \ { d })

FirstN(xs, n) == SubSeq(xs, 1, IF Len(xs) < n THEN Len(xs) ELSE n)

\* os_client.search with a bool query: the documents matching at least
\* minimum_should_match of the should clauses, at most size of them
os_search(idx, query) ==
    LET matching ==
            { d \in idx :
                Cardinality({ i \in 1..Len(query.should) :
                                MatchClause(d, query.should[i]) })
                    >= query.minimum_should_match }
    IN  FirstN(ListDocs(matching), query.size)

\* ------------------------------------------------------------------------
\* search_photos_in_opensearch
\* ------------------------------------------------------------------------
QuerySize == 50
MinimumShouldMatch == 1
S3_BUCKET == Some(<<"b">>)

RECURSIVE ShouldClauses(_)
ShouldClauses(kws) ==
    IF kws = <<>> THEN <<>>
    ELSE <<[field |-> "labels", text |-> Head(kws)]>>
         \o ShouldClauses(Tail(kws))

\* lines 118-128
BuildQuery_AllMustMatch(kws) ==
    [size |-> QuerySize, should |-> ShouldClauses(kws),
     minimum_should_match |-> Len(kws)]
BuildQuery(kws) ==
    [size |-> QuerySize, should |-> ShouldClauses(kws),
     minimum_should_match |-> MinimumShouldMatch]

\* lines 138-154: the projection of one hit
Project(d) ==
    [objectKey |-> d.src.objectKey, bucket |-> d.src.bucket,
     createdTimestamp |-> None, labels |-> d.src.labels,
     url |-> IF Truthy(S3_BUCKET) /\ ~Falsy(d.src.objectKey)
             THEN Some(<<S3_BUCKET.v, d.src.objectKey>>) ELSE None]

RECURSIVE ProjectAll(_)
ProjectAll(hits) ==
    IF hits = <<>> THEN <<>>
    ELSE <<Project(Head(hits))>> \o ProjectAll(Tail(hits))

\* the queries search_photos_in_opensearch sends for keywords (none or one)
QueriesSent(kws) ==
    IF Falsy(kws) THEN <<>> ELSE <<BuildQuery(kws)>>

\* its return value when the index read succeeds
SearchResults(idx, kws) ==
    IF Falsy(kws) THEN <<>>
    ELSE ProjectAll(os_search(idx, BuildQuery(kws)))

\* ------------------------------------------------------------------------
\* The request event of the search Lambda
\* ------------------------------------------------------------------------
OptSmall == { None, Some(<<>>), Some(<<"c">>) }
OptUtterances == { None } \cup { Some(u) : u \in Utterances }

\* event["queryStringParameters"]: absent, null or a dict that may hold q
QsOf(opts) ==
    { [k |-> "absent", q |-> None], [k |-> "null", q |-> None] }
    \cup { [k |-> "dict", q |-> o] : o \in opts }

\* event["body"]: absent, "", a str that is not JSON, JSON that is no
\* object, or a JSON object that may hold q
BodyOf(opts) ==
    { [k |-> kk, q |-> None] : kk \in { "absent", "empty", "badjson", "nondict" } }
    \cup { [k |-> "dict", q |-> o] : o \in opts }

Events ==
    { [q |-> a, qs |-> b, body |-> c] :
        a \in OptUtterances, b \in QsOf(OptSmall), c \in BodyOf(OptSmall) }
    \cup { [q |-> a, qs |-> b, body |-> c] :
        a \in OptSmall, b \in QsOf(OptUtterances), c \in BodyOf(OptSmall) }
    \cup { [q |-> a, qs |-> b, body |-> c] :
        a \in OptSmall, b \in QsOf(OptSmall), c \in BodyOf(OptUtterances) }

\* lines 169-189: q from the event
ExtractQ(event) ==
    LET q1 == event.q
        q2 == IF ~Truthy(q1)
              THEN (IF event.qs.k = "dict" THEN event.qs.q ELSE None)
              ELSE q1
        q3 == IF ~Truthy(q2) /\ event.body.k = "dict" THEN event.body.q
              ELSE q2
    IN  q3

\* lines 210-211: the fallback when get_keywords_from_lex raised
FallbackKeywords_Tokenize(qv) ==
    DropEmpty(MapStrip(StrSplit(
        StrReplace(StrReplace(qv, AndSep, Comma), <<" ">>, Comma), ",")))
FallbackKeywords(qv) == SplitKeywords(qv)

\* lines 206-211: the keywords of the try block, or of its except block
KeywordsAfterLex_FallbackWhenEmpty(out, qv) ==
    IF out.raised \/ Falsy(out.kws) THEN FallbackKeywords(qv) ELSE out.kws
KeywordsAfterLex(out, qv) ==
    IF out.raised THEN FallbackKeywords(qv) ELSE out.kws

HttpResponse(query, kws, res) ==
    [statusCode |-> 200, query |-> query, keywords |-> kws,
     results |-> res]

NoResponse == [statusCode |-> 0, query |-> None, keywords |-> <<>>,
               results |-> <<>>]

\* ------------------------------------------------------------------------
\* The storage event of the ingestion Lambda
\* ------------------------------------------------------------------------
RawKeys ==
    { <<"a", "+", "b">>, <<"a", "%", "2", "0", "b">>, <<"c">> }

\* record["s3"]["object"]["size"]: absent, zero or positive
Sizes == { [has |-> FALSE, n |-> 0], [has |-> TRUE, n |-> 0],
           [has |-> TRUE, n |-> 7] }

Records == { [bucket |-> Bucket, key |-> k, size |-> sz] :
               k \in RawKeys, sz \in Sizes }

\* line 48: urllib.parse.unquote_plus: "+" is a blank, then %20 is a blank
\* (the only escape of RawKeys)
unquote_plus(raw) ==
    StrReplace(StrReplace(raw, <<"+">>, <<" ">>), <<"%", "2", "0">>, <<" ">>)

\* line 49: .get("size", 0)
SizeOf(rec) == IF rec.size.has THEN rec.size.n ELSE 0

\* line 54: the test that skips a record
IsEmptyObject_Never(size) == FALSE
IsEmptyObject(size) == size = 0

\* ------------------------------------------------------------------------
\* The labeling service
\* ------------------------------------------------------------------------
MaxLabels == 10
MinConfidence == 75

\* lines 69-73: the parameters of detect_labels
RekRequest_MinConfidenceOmitted == [MaxLabels |-> MaxLabels, MinConfidence |-> 55]
RekRequest == [MaxLabels |-> MaxLabels, MinConfidence |-> MinConfidence]

Confidences == { 60, 90 }

Min(a, b) == IF a < b THEN a ELSE b

\* what detect_labels may return for a request: up to MaxLabels labels
\* (name, confidence), each of confidence at least the requested minimum
rek_detect_labels(req) ==
    SeqsUpTo({ [Name |-> nm, Confidence |-> c] :
                 nm \in LabelNames,
                 c \in { cc \in Confidences : cc >= req.MinConfidence } },
             Min(req.MaxLabels, MaxDetected))

\* line 78: [lab["Name"] for lab in rek_resp.get("Labels", [])]
RECURSIVE LabelsOf(_)
LabelsOf(rek_labels) ==
    IF rek_labels = <<>> THEN <<>>
    ELSE <<Head(rek_labels).Name>> \o LabelsOf(Tail(rek_labels))

\* where the loop goes after detect_labels raised (lines 74-76) and after
\* es.index raised (lines 93-94)
AfterRekognitionError_Raise == "aborted"
AfterRekognitionError == "next"
AfterIndexError == "next"

\* ------------------------------------------------------------------------
\* State
\* ------------------------------------------------------------------------
VARIABLES
    index,      \* the search index, shared by both Lambdas
    \* search Lambda (one invocation of lambda_handler)
    qpc,        \* "idle", "lex", "search", "done", "failed"
    q,          \* the utterance taken from the event
    lexOut,     \* what the try block of line 207 ended with
    keywords,   \* the keyword list after lines 206-211
    osQueries,  \* the query bodies sent to os_client.search
    results,    \* the result list of search_photos_in_opensearch
    response,   \* the HTTP response returned
    \* get_keywords_from_lex alone
    lexResp,    \* the response recognize_text returned
    lexDone,    \* whether the function has run on it
    lexRet,     \* what it ended with
    \* ingestion Lambda (one invocation of lambda_handler)
    ipc,        \* "idle", "next", "head", "rek", "index", "done", "aborted"
    batchLen,   \* len(records)
    recNo,      \* how many records the loop has taken
    record,     \* the record of this iteration
    key,        \* its decoded key
    rek_resp,   \* rek_resp["Labels"] of this iteration
    labels,     \* labels of this iteration
    status,     \* statusCode returned, 0 while none
    \* observers of the ingestion Lambda
    outcome,    \* how this iteration ended so far
    rekLog,     \* SizeOf of each record detect_labels was called for
    esLog,      \* SizeOf of each record es.index was called for
    okKeys,     \* keys of the records whose calls all succeeded
    replaced,   \* labels of the document the last write replaced
    lastOk      \* per key, the labels of its last successful ingestion

queryVars == <<qpc, q, lexOut, keywords, osQueries, results, response>>
lexVars == <<lexResp, lexDone, lexRet>>
ingestVars == <<ipc, batchLen, recNo, record, key, rek_resp, labels, status>>
observers == <<outcome, rekLog, esLog, okKeys, replaced, lastOk>>
vars == <<index, queryVars, lexVars, ingestVars, observers>>

QueryIdle ==
    /\ qpc = "idle"
    /\ q = None
    /\ lexOut = Returned(<<>>)
    /\ keywords = <<>>
    /\ osQueries = <<>>
    /\ results = <<>>
    /\ response = NoResponse

LexIdle ==
    /\ lexResp = CHOOSE r \in LexResponses : r.sessionState.k = "absent"
                                              /\ r.interpretations.k = "absent"
    /\ lexDone = FALSE
    /\ lexRet = Returned(<<>>)

DecodedKeys == { unquote_plus(k) : k \in RawKeys }

IterationIdle ==
    /\ record = CHOOSE r \in Records : TRUE
    /\ key = <<>>
    /\ rek_resp = <<>>
    /\ labels = <<>>
    /\ outcome = "none"
    /\ replaced = None

IngestIdle ==
    /\ ipc = "idle"
    /\ batchLen = 0
    /\ recNo = 0
    /\ status = 0
    /\ IterationIdle
    /\ rekLog = <<>>
    /\ esLog = <<>>
    /\ okKeys = {}
    /\ lastOk = [k \in DecodedKeys |-> None]

\* ------------------------------------------------------------------------
\* get_keywords_from_lex on every response shape
\* ------------------------------------------------------------------------
LexInit ==
    /\ index = {}
    /\ QueryIdle
    /\ IngestIdle
    /\ lexResp \in LexResponses
    /\ lexDone = FALSE
    /\ lexRet = Returned(<<>>)

Interpret ==
    /\ ~lexDone
    /\ lexDone' = TRUE
    /\ lexRet' = get_keywords_from_lex(lexResp)
    /\ UNCHANGED <<index, queryVars, lexResp, ingestVars, observers>>

LexNext == Interpret

SpecLex == LexInit /\ [][LexNext]_vars

\* ------------------------------------------------------------------------
\* lambda_handler of the search Lambda
\* ------------------------------------------------------------------------
SampleIndex ==
    { [id |-> <<"1">>, src |-> Doc(Bucket, <<"1">>, << <<"D">> >>)],
      [id |-> <<"2">>, src |-> Doc(Bucket, <<"2">>, << <<"C">> >>)],
      [id |-> <<"3">>, src |-> Doc(Bucket, <<"3">>, << <<"D">>, <<"C">> >>)],
      [id |-> <<"4">>, src |-> Doc(Bucket, <<"4">>, <<>>)] }

QueryInit ==
    /\ index \in { {}, SampleIndex }
    /\ QueryIdle
    /\ LexIdle
    /\ IngestIdle

\* lines 168-203: take q from the event; no q, empty response
ReceiveRequest ==
    /\ qpc = "idle"
    /\ \E event \in Events :
        LET qq == ExtractQ(event) IN
        /\ q' = qq
        /\ IF ~Truthy(qq)
           THEN /\ response' = HttpResponse(None, <<>>, <<>>)
                /\ qpc' = "done"
           ELSE /\ response' = response
                /\ qpc' = "lex"
    /\ UNCHANGED <<index, lexOut, keywords, osQueries, results, lexVars, ingestVars, observers>>

\* lines 205-225: keywords from Lex, or from the fallback when the call
\* raised; no keywords, empty response
CallLex ==
    /\ qpc = "lex"
    /\ \E out \in LexOutcomes :
        LET kws == KeywordsAfterLex(out, q.v) IN
        /\ lexOut' = out
        /\ keywords' = kws
        /\ IF Falsy(kws)
           THEN /\ response' = HttpResponse(q, <<>>, <<>>)
                /\ qpc' = "done"
           ELSE /\ response' = response
                /\ qpc' = "search"
    /\ UNCHANGED <<index, q, osQueries, results, lexVars, ingestVars, observers>>

\* lines 227-244: search and respond; an index read that raises ends the
\* invocation without a response
Search ==
    /\ qpc = "search"
    /\ osQueries' = osQueries \o QueriesSent(keywords)
    /\ \/ /\ results' = SearchResults(index, keywords)
          /\ response' = HttpResponse(q, keywords, results')
          /\ qpc' = "done"
       \/ /\ ~Falsy(keywords)
          /\ qpc' = "failed"
          /\ UNCHANGED <<results, response>>
    /\ UNCHANGED <<index, q, lexOut, keywords, lexVars, ingestVars, observers>>

\* the invocation is over; the next one starts from scratch
EndInvocation ==
    /\ qpc \in { "done", "failed" }
    /\ qpc' = "idle"
    /\ q' = None
    /\ lexOut' = Returned(<<>>)
    /\ keywords' = <<>>
    /\ osQueries' = <<>>
    /\ results' = <<>>
    /\ response' = NoResponse
    /\ UNCHANGED <<index, lexVars, ingestVars, observers>>

QueryNext == ReceiveRequest \/ CallLex \/ Search \/ EndInvocation

SpecQuery == QueryInit /\ [][QueryNext]_vars

\* ------------------------------------------------------------------------
\* lambda_handler of the ingestion Lambda
\* ------------------------------------------------------------------------
IngestInit ==
    /\ index = {}
    /\ QueryIdle
    /\ LexIdle
    /\ IngestIdle

\* lines 40-43: an event without records is answered 400
StartBatch ==
    /\ ipc = "idle"
    /\ \E n \in 0..MaxBatch :
        /\ batchLen' = n
        /\ IF n = 0
           THEN ipc' = "done" /\ status' = 400
           ELSE ipc' = "next" /\ status' = status
    /\ UNCHANGED <<index, queryVars, lexVars, recNo, record, key, rek_resp,
                   labels, observers>>

\* lines 45-56 and 96: the next record, skipped when empty; after the last
\* one the handler returns 200
NextRecord ==
    /\ ipc = "next"
    /\ \/ /\ recNo = batchLen
          /\ ipc' = "done"
          /\ status' = 200
          /\ UNCHANGED <<recNo, record, key, rek_resp, labels, outcome,
                         replaced>>
       \/ /\ recNo < batchLen
          /\ \E rec \in Records :
              /\ record' = rec
              /\ key' = unquote_plus(rec.key)
              /\ IF IsEmptyObject(SizeOf(rec))
                 THEN ipc' = "next" /\ outcome' = "skipped"
                 ELSE ipc' = "head" /\ outcome' = "none"
          /\ recNo' = recNo + 1
          /\ rek_resp' = <<>>
          /\ labels' = <<>>
          /\ replaced' = None
          /\ status' = status
    /\ UNCHANGED <<index, queryVars, lexVars, batchLen, rekLog, esLog, okKeys,
                   lastOk>>

\* lines 58-65: head_object, whose result is only logged
HeadObject ==
    /\ ipc = "head"
    /\ \E raised \in BOOLEAN : ipc' = "rek"
    /\ UNCHANGED <<index, queryVars, lexVars, batchLen, recNo, record, key,
                   rek_resp, labels, status, observers>>

\* lines 67-79: detect_labels; when it raises the record is given up
DetectLabels ==
    /\ ipc = "rek"
    /\ rekLog' = Append(rekLog, SizeOf(record))
    /\ \/ \E resp \in rek_detect_labels(RekRequest) :
            /\ rek_resp' = resp
            /\ labels' = LabelsOf(resp)
            /\ ipc' = "index"
            /\ outcome' = outcome
       \/ /\ ipc' = AfterRekognitionError
          /\ outcome' = "rekfail"
          /\ UNCHANGED <<rek_resp, labels>>
    /\ UNCHANGED <<index, queryVars, lexVars, batchLen, recNo, record, key,
                   status, esLog, okKeys, replaced, lastOk>>

\* lines 81-94: build the document and index it under id = key; when
\* es.index raises nothing is written
IndexDoc ==
    /\ ipc = "index"
    /\ esLog' = Append(esLog, SizeOf(record))
    /\ \/ /\ index' = es_index(index, key, Doc(record.bucket, key, labels))
          /\ replaced' = IF \E d \in index : d.id = key
                         THEN Some((CHOOSE d \in index : d.id = key).src.labels)
                         ELSE None
          /\ okKeys' = okKeys \cup { key }
          /\ lastOk' = [lastOk EXCEPT ![key] = Some(labels)]
          /\ outcome' = "indexed"
          /\ ipc' = "next"
       \/ /\ ipc' = AfterIndexError
          /\ outcome' = "esfail"
          /\ UNCHANGED <<index, replaced, okKeys, lastOk>>
    /\ UNCHANGED <<queryVars, lexVars, batchLen, recNo, record, key, rek_resp,
                   labels, status, rekLog>>

\* the invocation is over; the index stays
FinishInvocation ==
    /\ ipc \in { "done", "aborted" }
    /\ ipc' = "idle"
    /\ batchLen' = 0
    /\ recNo' = 0
    /\ status' = 0
    /\ record' = CHOOSE r \in Records : TRUE
    /\ key' = <<>>
    /\ rek_resp' = <<>>
    /\ labels' = <<>>
    /\ outcome' = "none"
    /\ replaced' = None
    /\ rekLog' = <<>>
    /\ esLog' = <<>>
    /\ okKeys' = {}
    /\ UNCHANGED <<index, queryVars, lexVars, lastOk>>

IngestNext ==
    StartBatch \/ NextRecord \/ HeadObject \/ DetectLabels \/ IndexDoc
    \/ FinishInvocation

SpecIngest == IngestInit /\ [][IngestNext]_vars

\* ------------------------------------------------------------------------
\* Properties of the search Lambda
\* ------------------------------------------------------------------------
\* get_keywords_from_lex has been called in this invocation
LexCalled == qpc \in { "search", "done", "failed" } /\ Truthy(q)

\* The raw-text fallback as the specification words it, computed in one
\* left-to-right pass: a piece ends at a "," or at a " and ", is trimmed,
\* and is dropped when empty.
EmitPiece(out, cur) ==
    IF StrStrip(cur) = <<>> THEN out ELSE Append(out, StrStrip(cur))

RECURSIVE ScanPieces(_, _, _, _)
ScanPieces(str, i, cur, out) ==
    IF i > Len(str) THEN EmitPiece(out, cur)
    ELSE IF str[i] = "," THEN ScanPieces(str, i + 1, <<>>, EmitPiece(out, cur))
    ELSE IF MatchesAt(str, AndSep, i)
         THEN ScanPieces(str, i + Len(AndSep), <<>>, EmitPiece(out, cur))
         ELSE ScanPieces(str, i + 1, Append(cur, str[i]), out)

RawTextPieces(str) == ScanPieces(str, 1, <<>>, <<>>)

NoDuplicates(xs) ==
    \A i, j \in 1..Len(xs) : xs[i] = xs[j] => i = j

IsKeywordSet(xs) ==
    /\ NoDuplicates(xs)
    /\ \A i \in 1..Len(xs) : xs[i] # <<>> /\ StrStrip(xs[i]) = xs[i]

BirdsAndCats == <<"d">> \o AndSep \o <<"c">>

\* C1 (as claimed): whenever Lex yields no keywords for a non-empty q, by
\* failing or by returning none, the keywords searched and returned are the
\* deduplicated raw-text fallback of q.
C1_FallbackWheneverLexEmpty ==
    (LexCalled /\ (lexOut.raised \/ lexOut.kws = <<>>)) =>
        /\ keywords = DictFromKeys(RawTextPieces(q.v))
        /\ qpc = "done" => response.keywords = DictFromKeys(RawTextPieces(q.v))

\* C1 (amended): the raw-text fallback is applied only when the Lex call
\* raises, and then the keywords are, duplicates apart, the raw-text pieces
\* of q; when the call succeeds without keywords, the keyword list is empty,
\* nothing is searched and the response carries no keywords and no results.
C1_FallbackOnlyWhenLexRaises ==
    /\ (LexCalled /\ lexOut.raised) =>
          /\ DictFromKeys(keywords) = DictFromKeys(RawTextPieces(q.v))
          /\ qpc = "done" => response.keywords = keywords
    /\ (LexCalled /\ ~lexOut.raised /\ lexOut.kws = <<>>) =>
          /\ keywords = <<>>
          /\ osQueries = <<>>
          /\ qpc = "done"
          /\ response = HttpResponse(q, <<>>, <<>>)

C1_Witness ==
    /\ qpc = "done"
    /\ q = Some(BirdsAndCats)
    /\ ~lexOut.raised
    /\ lexOut.kws = <<>>
    /\ response.keywords = <<>>

\* C2 (as claimed): for every request and Lex outcome, the keywords searched
\* and returned have no duplicates, no empty or blank entry, are trimmed and
\* are in first-seen order.
C2_KeywordsAreKeywordSet ==
    LexCalled =>
        /\ IsKeywordSet(keywords)
        /\ lexOut.raised => keywords = DictFromKeys(RawTextPieces(q.v))
        /\ qpc = "done" => IsKeywordSet(response.keywords)

\* C3: when the Lex call raises for a non-empty q and the index read
\* succeeds, the response has status 200, query q and as keywords the
\* raw-text pieces of q, in order, not tokenized any further.
C3_LexFailureFallsBack ==
    (LexCalled /\ lexOut.raised) =>
        /\ keywords = RawTextPieces(q.v)
        /\ qpc = "failed" => osQueries # <<>>
        /\ qpc = "done" =>
              /\ response.statusCode = 200
              /\ response.query = q
              /\ response.keywords = RawTextPieces(q.v)

C3_Witness ==
    /\ qpc = "done"
    /\ lexOut.raised
    /\ q = Some(<<"d">> \o AndSep \o <<"c">>)
    /\ response.statusCode = 200
    /\ response.query = q
    /\ response.keywords = << <<"d">>, <<"c">> >>

\* C6: with an empty keyword list no query is sent to the index and the
\* result list is empty; no query with zero clauses is ever sent.
C6_NoQueryWithoutKeywords ==
    /\ \A i \in 1..Len(osQueries) : osQueries[i].should # <<>>
    /\ (qpc \in { "search", "done", "failed" } /\ keywords = <<>>) =>
          /\ osQueries = <<>>
          /\ qpc = "done"
          /\ response.results = <<>>

C6_Witness ==
    /\ qpc = "done"
    /\ Truthy(q)
    /\ lexOut.raised
    /\ keywords = <<>>
    /\ osQueries = <<>>
    /\ response.results = <<>>

MatchesSomeKeyword(d, kws) ==
    \E k \in 1..Len(kws) : MatchClause(d, [field |-> "labels", text |-> kws[k]])

\* C10: the query sent for a non-empty keyword list holds one match clause
\* on labels per keyword and requires one to match; a document is returned
\* exactly when its labels match at least one keyword, and every result is
\* the projection of such a document.
C10_AnySemantics ==
    (qpc = "done" /\ keywords # <<>>) =>
        /\ Len(osQueries) = 1
        /\ Len(osQueries[1].should) = Len(keywords)
        /\ \A i \in 1..Len(keywords) :
              osQueries[1].should[i] = [field |-> "labels", text |-> keywords[i]]
        /\ osQueries[1].minimum_should_match = 1
        /\ \A d \in index :
              InSeq(Project(d), response.results)
                  <=> MatchesSomeKeyword(d, keywords)
        /\ \A i \in 1..Len(response.results) :
              \E d \in index : /\ response.results[i] = Project(d)
                               /\ MatchesSomeKeyword(d, keywords)

C10_Witness ==
    /\ qpc = "done"
    /\ index = SampleIndex
    /\ keywords = << <<"d">>, <<"c">> >>
    /\ Len(response.results) = 3
    /\ \E i \in 1..3 : response.results[i].labels = << <<"D">> >>
    /\ \E i \in 1..3 : response.results[i].labels = << <<"C">> >>
    /\ \A i \in 1..3 : response.results[i].labels # <<>>

\* ------------------------------------------------------------------------
\* Properties of get_keywords_from_lex
\* ------------------------------------------------------------------------
\* a response whose shape departs from the contract at a place the function
\* reads: a null where an object is expected, or a value without
\* interpretedValue
UnexpectedShape(resp) ==
    \/ resp.sessionState.k = "null"
    \/ resp.sessionState.k = "dict" /\ resp.sessionState.intent.k = "null"
    \/ /\ resp.interpretations.k = "list"
       /\ resp.interpretations.entries # <<>>
       /\ resp.interpretations.entries[1].k = "absent"
    \/ /\ resp.sessionState.k = "dict"
       /\ resp.sessionState.intent.k = "dict"
       /\ resp.sessionState.intent.slots.k = "dict"
       /\ resp.sessionState.intent.slots.kw.k = "dict"
       /\ resp.sessionState.intent.slots.kw.values.k = "absent"
       /\ \/ resp.sessionState.intent.slots.kw.value.k = "null"
          \/ /\ resp.sessionState.intent.slots.kw.value.k = "dict"
             /\ resp.sessionState.intent.slots.kw.value.iv.k = "absent"

\* C9 (as claimed): on a response of unexpected shape get_keywords_from_lex
\* raises nothing and returns the empty keyword list.
C9_UnexpectedShapeIsNoSlot ==
    (lexDone /\ UnexpectedShape(lexResp)) => lexRet = Returned(<<>>)

\* ------------------------------------------------------------------------
\* Properties of the ingestion Lambda
\* ------------------------------------------------------------------------
DocsOfKey(k) == { d \in index : d.src.objectKey = k }

\* C4: no detect_labels call and no index write is made for a record of
\* size zero, wherever it sits in the batch.
C4_NoCallsForEmptyObjects ==
    /\ \A i \in 1..Len(rekLog) : rekLog[i] # 0
    /\ \A i \in 1..Len(esLog) : esLog[i] # 0
    /\ ipc \in { "head", "rek", "index" } => SizeOf(record) # 0
    /\ outcome \in { "rekfail", "esfail", "indexed" } => SizeOf(record) # 0

C4_Witness ==
    /\ ipc = "done"
    /\ batchLen = 2
    /\ recNo = 2
    /\ outcome = "skipped"
    /\ record.size = [has |-> TRUE, n |-> 0]
    /\ Len(rekLog) = 1
    /\ Len(esLog) = 1

\* C5: a failing detect_labels or es.index call of one record neither stops
\* the batch nor undoes a write: the handler reaches the end of the batch
\* and every record whose own calls succeeded has its document in the index.
C5_FailuresAreIsolated ==
    /\ ipc # "aborted"
    /\ recNo <= batchLen
    /\ (ipc = "done" /\ batchLen > 0) => (recNo = batchLen /\ status = 200)
    /\ \A k \in okKeys : DocsOfKey(k) # {}

C5_Witness ==
    /\ ipc = "done"
    /\ batchLen = 2
    /\ Len(rekLog) = 2
    /\ Len(esLog) = 1
    /\ outcome = "indexed"
    /\ DocsOfKey(key) # {}

\* C7: the index holds at most one document per objectKey, its id is the
\* URL-decoded key, and it carries the labels of the last successful
\* ingestion of that key.
C7_OneDocumentPerKey ==
    /\ \A d1, d2 \in index : d1.src.objectKey = d2.src.objectKey => d1 = d2
    /\ \A d \in index :
          /\ d.id = d.src.objectKey
          /\ d.id \in { <<"a", " ", "b">>, <<"c">> }
    /\ \A k \in DOMAIN lastOk :
          lastOk[k].some =>
              \E d \in index : d.id = k /\ d.src.labels = lastOk[k].v

C7_Witness ==
    /\ outcome = "indexed"
    /\ record.key = <<"a", "%", "2", "0", "b">>
    /\ replaced.some
    /\ replaced.v # labels
    /\ Cardinality(DocsOfKey(<<"a", " ", "b">>)) = 1
    /\ \A d \in DocsOfKey(<<"a", " ", "b">>) : d.src.labels = labels

====
